---- MODULE Spec2Model ----
(***************************************************************************)
(* Model of the GodAgent orchestrator (src/src/orchestrator.py): the task  *)
(* lifecycle driven by Orchestrator.process_task and its calls into the    *)
(* council selector, the approval manager, the agent executor and the      *)
(* decision logger.  Each process_task call is a coroutine; an action is   *)
(* one stretch of its code, cut at the status assignments and the awaits.  *)
(***************************************************************************)
EXTENDS Integers, Sequences, FiniteSets, TLC

\* ------------------------------------------------------------------ bounds

\* Number of process_task calls in flight.
MaxTasks == 1

Tasks == 1..MaxTasks

\* ------------------------------------------------------------ enumerations

\* class ApprovalMode
AUTO == "AUTO"
APPROVE_ALL == "APPROVE_ALL"
APPROVE_HIGH_RISK == "APPROVE_HIGH_RISK"
ApprovalMode == {AUTO, APPROVE_ALL, APPROVE_HIGH_RISK}

\* class TaskStatus
PENDING == "pending"
COUNCIL_SELECTING == "council_selecting"
AWAITING_APPROVAL == "awaiting_approval"
EXECUTING == "executing"
COMPLETED == "completed"
FAILED == "failed"
REJECTED == "rejected"
TaskStatus ==
    {PENDING, COUNCIL_SELECTING, AWAITING_APPROVAL, EXECUTING, COMPLETED, FAILED, REJECTED}

\* RiskLevel of the approval manager.
RiskLevel == {"LOW", "MEDIUM", "HIGH"}

\* The value of the optional approval_mode parameter when it is not passed.
None == "None"

\* What settings.approval["mode"] can hold: a member of ApprovalMode or a
\* string that ApprovalMode(...) rejects with ValueError.
ConfigModes == ApprovalMode \cup {"BOGUS"}

\* config.get_agent_names(), in configuration order.
AgentNames == <<"aider", "claude", "codex", "gemini", "goose">>

Agents == {AgentNames[i] : i \in DOMAIN AgentNames}

\* An agent name that is not in the configured set.
UnknownAgentName == "ghost"

\* The agents a council selection can name.
SelectableAgents == Agents \cup {UnknownAgentName}

\* The selections the pipeline is run with: the first and the last configured
\* agent, and the unknown one.
SelectionInputs == {AgentNames[1], AgentNames[Len(AgentNames)], UnknownAgentName}

\* An exception instance: the name of its class and the message it was
\* raised with, "" when it was raised without one.
Exc(type, message) == [type |-> type, message |-> message]

\* str(e): the message the exception was raised with.
Str(e) == e.message

\* No error was raised.
NoFault == Exc("", "")

\* ApprovalMode(value) for a value that names no member.
InvalidMode(value) ==
    Exc("ValueError", "'" \o value \o "' is not a valid ApprovalMode")

\* Errors raised inside process_task.  All but CancelledError derive from
\* Exception; asyncio.CancelledError derives from BaseException.  A timeout
\* and a quorum failure can be raised without a message.
CancelledError == Exc("CancelledError", "")
SelectorErrors == {Exc("QuorumFailure", "")}
ModeErrors == {InvalidMode(m) : m \in ConfigModes \ ApprovalMode}
ApprovalErrors ==
    {Exc("ApprovalError", "approval store unavailable"),
     Exc("ApprovalExpired", "approval request expired")}
ExecutorErrors ==
    {Exc("ExecutorError", "exit status 2"), Exc("ExecutorTimeout", ""),
     Exc("UnknownAgent", "unknown agent")}
LoggerErrors == {Exc("DecisionLogError", "decision log not writable")}
Exceptions ==
    SelectorErrors \cup ModeErrors \cup ApprovalErrors \cup ExecutorErrors \cup LoggerErrors

\* ------------------------------------------------------------------- state

VARIABLES
    cfgMode,      \* config.settings.approval["mode"]
    pc,           \* position of each process_task coroutine
    tasks,        \* self._tasks: the ids in the registry
    status,       \* task.status
    hist,         \* every value assigned to task.status, in order
    override,     \* the approval_mode argument of the call
    selection,    \* selection.selected_agent, "" before the selector returned
    risk,         \* the risk level classify_risk gave, "" before the call
    request,      \* the ApprovalRequest of the task and its response
    execCalls,    \* number of executor.execute calls made for the task
    execResult,   \* the local `result` of process_task (from _execute_agent)
    returned,     \* the ExecutionResult process_task returned
    fault,        \* the error raised inside the call, NoFault when none
    decisions,    \* self._decisions
    decisionLog,  \* the records of the shared DecisionLogger
    readLimit,    \* the limit of the last get_decisions call
    readAt,       \* the number of local decisions when that call was made
    readResult,   \* what that call returned
    gateReq,      \* approval manager: each ApprovalRequest and its response
    timerFired,   \* approval manager: the requests whose expiry timer fired
    decideLog,    \* approval manager: the decide calls made, with their results
    voter,        \* council: what each voter did on the task
    arrival,      \* council: the responding voters in the order of their answers
    councilResult,  \* council: what select_agent produced
    agentSelection, \* the AgentSelection _select_agent built from it
    delegations,  \* mesh: the DelegationRecords, in insertion order
    meshCalls,    \* mesh: the record_delegation calls made, with their results
    ctx,          \* middleware: the correlation ContextVars in the context of each dispatch call
    routeCtx,     \* middleware: the same in the context of the task call_next runs the route in
    dispatch,     \* middleware: position and locals of each dispatch call
    httpLog       \* middleware: the events each dispatch call logged

vars ==
    <<cfgMode, pc, tasks, status, hist, override, selection, risk, request,
      execCalls, execResult, returned, fault, decisions, decisionLog>>

\* The variables of the audit reads.
logVars == <<readLimit, readAt, readResult>>

\* The variables of the approval manager's requests.
gateVars == <<gateReq, timerFired, decideLog>>

\* The variables of one council selection.
councilVars == <<voter, arrival, councilResult, agentSelection>>

\* The variables of the mesh coordinator.
meshVars == <<delegations, meshCalls>>

\* The variables of the logging middleware.
httpVars == <<ctx, routeCtx, dispatch, httpLog>>

\* The variables process_task does not touch.
otherVars == <<logVars, gateVars, councilVars, meshVars, httpVars>>

\* Every variable of the module.
allVars == <<vars, otherVars>>

\* Number of approval requests and of decide calls.
MaxRequests == 2
MaxDecides == 3

Requests == 1..MaxRequests

\* An ApprovalRequest that was not created yet.
AbsentRequest ==
    [created |-> FALSE, response |-> "none", decided_by |-> "", expired |-> FALSE]

\* Number of configured voters; the quorum is a majority of them.
MaxVoters == 3

Voters == 1..MaxVoters

Quorum == (MaxVoters \div 2) + 1

\* A voter that has not settled.
PendingVoter == [state |-> "pending", selected_agent |-> "", ranking |-> <<>>]

\* No council result, and no AgentSelection, yet.
NoCouncilResult ==
    [kind |-> "none", selected_agent |-> "", confidence |-> <<0, 1>>,
     votes |-> <<>>, rankings |-> <<>>]

\* Number of HTTP requests the middleware handles.
MaxHttp == 2

HttpRequests == 1..MaxHttp

\* The correlation ContextVars at their default.
EmptyContext ==
    [trace_id |-> None, span_id |-> None, method |-> None, path |-> None,
     agent |-> None, phase |-> None]

\* A dispatch call that has not started.
IdleDispatch ==
    [pc |-> "idle", trace_id |-> None, handler_error |-> None, raised |-> None,
     status_code |-> 0, x_trace_id |-> None]

\* No ExecutionResult yet.
NoResult ==
    [task_id |-> 0, agent |-> "", response |-> "", success |-> FALSE, error |-> None]

\* No ApprovalRequest was created.
NoRequest ==
    [created |-> FALSE, risk_level |-> "LOW", approved |-> FALSE, decided_by |-> ""]

\* The state after construction, with ids as the ids the tasks can get.
InitOver(ids) ==
    /\ cfgMode \in ConfigModes
    /\ pc = [t \in ids |-> "idle"]
    /\ tasks = {}
    /\ status = [t \in ids |-> "none"]
    /\ hist = [t \in ids |-> <<>>]
    /\ override = [t \in ids |-> None]
    /\ selection = [t \in ids |-> ""]
    /\ risk = [t \in ids |-> ""]
    /\ request = [t \in ids |-> NoRequest]
    /\ execCalls = [t \in ids |-> 0]
    /\ execResult = [t \in ids |-> NoResult]
    /\ returned = [t \in ids |-> NoResult]
    /\ fault = [t \in ids |-> NoFault]
    /\ decisions = <<>>
    /\ decisionLog = <<>>
    /\ readLimit = 0
    /\ readAt = 0
    /\ readResult = <<>>
    /\ gateReq = [r \in Requests |-> AbsentRequest]
    /\ timerFired = {}
    /\ decideLog = <<>>
    /\ voter = [v \in Voters |-> PendingVoter]
    /\ councilResult = NoCouncilResult
    /\ agentSelection = NoCouncilResult
    /\ arrival = <<>>
    /\ delegations = <<>>
    /\ meshCalls = <<>>
    /\ ctx = [r \in HttpRequests |-> EmptyContext]
    /\ routeCtx = [r \in HttpRequests |-> EmptyContext]
    /\ dispatch = [r \in HttpRequests |-> IdleDispatch]
    /\ httpLog = [r \in HttpRequests |-> <<>>]

Init == InitOver(Tasks)

\* Variant of SetStatus: the task is kept in an attribute of the orchestrator
\* that holds the task created last, and the status is written there.
SetStatusOfLatest(t, s) ==
    LET latest == CHOOSE u \in tasks \cup {t} : \A w \in tasks \cup {t} : w <= u
    IN  /\ status' = [status EXCEPT ![latest] = s]
        /\ hist' = [hist EXCEPT ![latest] = Append(@, s)]

\* task.status = s
SetStatus(t, s) ==
    /\ status' = [status EXCEPT ![t] = s]
    /\ hist' = [hist EXCEPT ![t] = Append(@, s)]

\* ------------------------------------------------------- create the task

\* Variant of CreateTask: the Task is built and not put into the registry.
CreateTaskUnregistered(t, approval_mode) ==
    /\ pc[t] = "idle"
    /\ \A u \in DOMAIN pc : u < t => pc[u] # "idle"
    /\ override' = [override EXCEPT ![t] = approval_mode]
    /\ SetStatus(t, PENDING)
    /\ pc' = [pc EXCEPT ![t] = "created"]
    /\ UNCHANGED <<otherVars, cfgMode, tasks, selection, risk, request, execCalls,
                   execResult, returned, fault, decisions, decisionLog>>

\* process_task up to the try block: the Task is built with status PENDING
\* and put into the registry.
CreateTask(t, approval_mode) ==
    /\ pc[t] = "idle"
    /\ \A u \in DOMAIN pc : u < t => pc[u] # "idle"
    /\ tasks' = tasks \cup {t}
    /\ override' = [override EXCEPT ![t] = approval_mode]
    /\ SetStatus(t, PENDING)
    /\ pc' = [pc EXCEPT ![t] = "created"]
    /\ UNCHANGED <<otherVars, cfgMode, selection, risk, request, execCalls, execResult,
                   returned,
                   fault, decisions, decisionLog>>

\* ------------------------------------------------------ the except clause

\* Variant of Caught: a handler written `except RuntimeError`, which lets the
\* ValueError of an invalid configured mode pass.
CaughtRuntimeErrorOnly(exc) == exc \in Exceptions \ ModeErrors

\* `except Exception as e`: what the handler of process_task catches.
Caught(exc) == exc \in Exceptions

\* The ExecutionResult built by the handler: its error is str(e).
FailureResult(t, exc) ==
    [task_id |-> t, agent |-> "unknown", response |-> "", success |-> FALSE,
     error |-> Str(exc)]

\* An error exc is raised inside the try block of task t.  A caught one sets
\* FAILED and returns a failure result; any other leaves process_task with
\* the task as it was.
Raise(t, exc) ==
    /\ fault' = [fault EXCEPT ![t] = exc]
    /\ IF Caught(exc)
       THEN /\ SetStatus(t, FAILED)
            /\ returned' = [returned EXCEPT ![t] = FailureResult(t, exc)]
            /\ pc' = [pc EXCEPT ![t] = "returned"]
       ELSE /\ pc' = [pc EXCEPT ![t] = "raised"]
            /\ UNCHANGED <<status, hist, returned>>

\* --------------------------------------------------- step 1: select agent

\* task.status = COUNCIL_SELECTING, then the call of _select_agent, which
\* suspends on the council selector.
BeginSelect(t) ==
    /\ pc[t] = "created"
    /\ SetStatus(t, COUNCIL_SELECTING)
    /\ pc' = [pc EXCEPT ![t] = "selecting"]
    /\ UNCHANGED <<otherVars, cfgMode, tasks, override, selection, risk, request, execCalls,
                   execResult, returned, fault, decisions, decisionLog>>

\* The council selector returns; _select_agent builds the AgentSelection.
SelectorReturns(t, agent) ==
    /\ pc[t] = "selecting"
    /\ selection' = [selection EXCEPT ![t] = agent]
    /\ pc' = [pc EXCEPT ![t] = "selected"]
    /\ UNCHANGED <<otherVars, cfgMode, tasks, status, hist, override, risk, request, execCalls,
                   execResult, returned, fault, decisions, decisionLog>>

\* Variant of SelectorFails: the failure is swallowed and the pipeline goes
\* on with the first configured agent.
SelectorFailsFallback(t, exc) ==
    /\ pc[t] = "selecting"
    /\ fault' = [fault EXCEPT ![t] = exc]
    /\ selection' = [selection EXCEPT ![t] = AgentNames[1]]
    /\ pc' = [pc EXCEPT ![t] = "selected"]
    /\ UNCHANGED <<otherVars, cfgMode, tasks, status, hist, override, risk, request, execCalls,
                   execResult, returned, decisions, decisionLog>>

\* The council selector raises (too few voters answered).
SelectorFails(t, exc) ==
    /\ pc[t] = "selecting"
    /\ Raise(t, exc)
    /\ UNCHANGED <<otherVars, cfgMode, tasks, override, selection, risk, request, execCalls,
                   execResult, decisions, decisionLog>>

\* ------------------------------------------------- step 2: approval check

\* mode = approval_mode or ApprovalMode(config mode): the override when one
\* was passed, the configured mode otherwise.
EffectiveMode(approval_mode, configured) ==
    IF approval_mode # None THEN approval_mode ELSE configured

\* ApprovalMode(...) raises ValueError for a string that names no member; it
\* is evaluated only when no override was passed.
ModeIsValid(approval_mode, configured) ==
    approval_mode # None \/ configured \in ApprovalMode

\* The mode is resolved; any mode but AUTO sets AWAITING_APPROVAL.
ResolveMode(t) ==
    /\ pc[t] = "selected"
    /\ IF ~ModeIsValid(override[t], cfgMode)
       THEN Raise(t, InvalidMode(cfgMode))
       ELSE /\ IF EffectiveMode(override[t], cfgMode) # AUTO
               THEN /\ SetStatus(t, AWAITING_APPROVAL)
                    /\ pc' = [pc EXCEPT ![t] = "approval"]
               ELSE /\ pc' = [pc EXCEPT ![t] = "approved"]
                    /\ UNCHANGED <<status, hist>>
            /\ UNCHANGED <<returned, fault>>
    /\ UNCHANGED <<otherVars, cfgMode, tasks, override, selection, risk, request, execCalls,
                   execResult, decisions, decisionLog>>

\* The mode the approval manager works under: _check_approval passes it no
\* mode, so it is the configured one (AUTO when that is no valid mode).
ManagerMode == IF cfgMode \in ApprovalMode THEN cfgMode ELSE AUTO

\* approval_manager.requires_approval("agent_execution", risk_level)
RequiresApproval(mode, risk_level) ==
    \/ mode = APPROVE_ALL
    \/ mode = APPROVE_HIGH_RISK /\ risk_level = "HIGH"

\* What approval_manager.auto_approve(request) can return.  No decide call
\* is made for the request: the manager answers it itself, with the
\* approval, or with a refusal for a request that is past its expiry.
GateResponses ==
    {[approved |-> TRUE, decided_by |-> "auto"],
     [approved |-> FALSE, decided_by |-> "expiry"]}

\* approval_manager.create_request(...): a request without a response.
CreateRequest(risk_level) ==
    [created |-> TRUE, risk_level |-> risk_level, approved |-> FALSE, decided_by |-> ""]

\* approval_manager.auto_approve(request): the request with its response.
AutoApprove(req, response) ==
    [req EXCEPT !.approved = response.approved, !.decided_by = response.decided_by]

\* `return response.approved` of _check_approval.
ResponseApproved(response) == response.approved

\* The calls _check_approval makes on the approval manager, in order.
ApprovalCalls == <<"classify_risk", "requires_approval", "create_request", "auto_approve">>

\* What a call of the approval manager can raise: the expiry of the request
\* comes from the call that answers it.
ApprovalErrorsAt(call) ==
    IF call = "auto_approve"
    THEN {e \in ApprovalErrors : e.type = "ApprovalExpired"}
    ELSE {e \in ApprovalErrors : e.type # "ApprovalExpired"}

\* `if not approved`: REJECTED and the rejection result, without execution.
Rejected(t) ==
    /\ SetStatus(t, REJECTED)
    /\ returned' = [returned EXCEPT ![t] =
           [task_id |-> t, agent |-> selection[t], response |-> "",
            success |-> FALSE, error |-> "User rejected agent selection"]]
    /\ pc' = [pc EXCEPT ![t] = "returned"]

\* _check_approval and the branch on its result.
CheckApproval(t, risk_level, response) ==
    /\ pc[t] = "approval"
    /\ risk' = [risk EXCEPT ![t] = risk_level]
    /\ IF ~RequiresApproval(ManagerMode, risk_level)
       THEN /\ pc' = [pc EXCEPT ![t] = "approved"]
            /\ UNCHANGED <<request, status, hist, returned>>
       ELSE /\ request' = [request EXCEPT ![t] =
                   AutoApprove(CreateRequest(risk_level), response)]
            /\ IF ResponseApproved(response)
               THEN /\ pc' = [pc EXCEPT ![t] = "approved"]
                    /\ UNCHANGED <<status, hist, returned>>
               ELSE Rejected(t)
    /\ UNCHANGED <<otherVars, cfgMode, tasks, override, selection, execCalls, execResult,
                   fault, decisions, decisionLog>>

\* A call of the approval manager raises inside _check_approval, after the
\* calls before it returned: classify_risk gave risk_level unless it is the
\* call that raises, create_request and auto_approve are reached only when
\* requires_approval returned True, and when auto_approve raises the request
\* exists and has no response.
ApprovalFails(t, risk_level, call, exc) ==
    /\ pc[t] = "approval"
    /\ exc \in ApprovalErrorsAt(ApprovalCalls[call])
    /\ call >= 3 => RequiresApproval(ManagerMode, risk_level)
    /\ risk' = [risk EXCEPT ![t] = IF call >= 2 THEN risk_level ELSE @]
    /\ request' = [request EXCEPT ![t] = IF call = 4 THEN CreateRequest(risk_level) ELSE @]
    /\ Raise(t, exc)
    /\ UNCHANGED <<otherVars, cfgMode, tasks, override, selection, execCalls,
                   execResult, decisions, decisionLog>>

\* -------------------------------------------------- step 3: execute agent

\* What executor.execute can return: the agent's output, or a reported
\* failure with or without an error message.
ExecutorOutputs ==
    {[response |-> "output", success |-> TRUE, error |-> None],
     [response |-> "", success |-> FALSE, error |-> "agent failed"],
     [response |-> "", success |-> FALSE, error |-> None]}

\* What executor.execute can return for an agent: nothing for a name it does
\* not know.
ExecutorOutputsFor(agent_name) ==
    IF agent_name \in Agents THEN ExecutorOutputs ELSE {}

\* What executor.execute can raise for an agent: UnknownAgent for a name it
\* does not know, an execution error or a timeout otherwise.
ExecutorErrorsFor(agent_name) ==
    IF agent_name \in Agents
    THEN {e \in ExecutorErrors : e.type # "UnknownAgent"}
    ELSE {e \in ExecutorErrors : e.type = "UnknownAgent"}

\* Variant of BeginExecute: step 3 also runs right after the selection,
\* ahead of the approval check.
BeginExecuteEarly(t) ==
    /\ pc[t] \in {"selected", "approved"}
    /\ SetStatus(t, EXECUTING)
    /\ execCalls' = [execCalls EXCEPT ![t] = @ + 1]
    /\ pc' = [pc EXCEPT ![t] = "executing"]
    /\ UNCHANGED <<otherVars, cfgMode, tasks, override, selection, risk, request, execResult,
                   returned, fault, decisions, decisionLog>>

\* task.status = EXECUTING, then the call of _execute_agent, which suspends
\* on executor.execute.
BeginExecute(t) ==
    /\ pc[t] = "approved"
    /\ SetStatus(t, EXECUTING)
    /\ execCalls' = [execCalls EXCEPT ![t] = @ + 1]
    /\ pc' = [pc EXCEPT ![t] = "executing"]
    /\ UNCHANGED <<otherVars, cfgMode, tasks, override, selection, risk, request, execResult,
                   returned, fault, decisions, decisionLog>>

\* The ExecutionResult _execute_agent builds from the executor's output.
ExecuteAgentResult(t, agent_name, out) ==
    [task_id |-> t, agent |-> agent_name, response |-> out.response,
     success |-> out.success, error |-> out.error]

\* executor.execute returns out.
ExecutorReturns(t, out) ==
    /\ pc[t] = "executing"
    /\ out \in ExecutorOutputsFor(selection[t])
    /\ execResult' = [execResult EXCEPT ![t] = ExecuteAgentResult(t, selection[t], out)]
    /\ pc' = [pc EXCEPT ![t] = "executed"]
    /\ UNCHANGED <<otherVars, cfgMode, tasks, status, hist, override, selection, risk, request,
                   execCalls, returned, fault, decisions, decisionLog>>

\* Variant of ExecutorFails: the error is noted and the call is awaited
\* again.
ExecutorFailsRetried(t, exc) ==
    /\ pc[t] = "executing"
    /\ exc \in ExecutorErrorsFor(selection[t])
    /\ fault' = [fault EXCEPT ![t] = exc]
    /\ UNCHANGED <<otherVars, cfgMode, pc, tasks, status, hist, override, selection, risk,
                   request, execCalls, execResult, returned, decisions, decisionLog>>

\* executor.execute raises or times out.
ExecutorFails(t, exc) ==
    /\ pc[t] = "executing"
    /\ exc \in ExecutorErrorsFor(selection[t])
    /\ Raise(t, exc)
    /\ UNCHANGED <<otherVars, cfgMode, tasks, override, selection, risk, request, execCalls,
                   execResult, decisions, decisionLog>>

\* --------------------------------------------------- step 4: log decision

\* The cut [:3] of the alternatives handed to the decision logger.
TopK == 3

Min(a, b) == IF a < b THEN a ELSE b

\* The score given to every alternative, 0.5, in hundredths.
AlternativeScore == 50

\* Alternative(name=agent, score=0.5, reason=...)
Alternative(agent) == [name |-> agent, score |-> AlternativeScore]

\* The alternatives handed to the decision logger when the configured agents
\* are agent_names: those other than the selected one, in configuration
\* order, cut to the first TopK.
AlternativesOf(agent_names, selected_agent) ==
    LET others == SelectSeq(agent_names, LAMBDA a : a # selected_agent)
        kept == SubSeq(others, 1, Min(TopK, Len(others)))
    IN  [i \in DOMAIN kept |-> Alternative(kept[i])]

\* The same for the configured agents.
Alternatives(selected_agent) == AlternativesOf(AgentNames, selected_agent)

\* The title handed to the decision logger: f"Selected {selected_agent}".
LoggedTitle(agent) == "Selected " \o agent

\* The title of the local Decision: f"Selected {selected_agent} for task".
LocalTitle(agent) == "Selected " \o agent \o " for task"

\* The record decision_logger.log_decision stores for task t when agent was
\* selected.
LoggedDecisionOf(t, agent) ==
    [task_id |-> t, title |-> LoggedTitle(agent), alternatives |-> Alternatives(agent)]

\* The local Decision of _log_decision for task t: its alternatives are all
\* the configured agent names; created_at is the moment of the append.
LocalDecisionOf(t, agent, success) ==
    [task_id |-> t, title |-> LocalTitle(agent), alternatives |-> AgentNames,
     outcome |-> IF success THEN "success" ELSE "failure",
     created_at |-> Len(decisions) + 1]

\* The record decision_logger.log_decision stores.
LoggedDecision(t) == LoggedDecisionOf(t, selection[t])

\* The local Decision of _log_decision.
LocalDecision(t) == LocalDecisionOf(t, selection[t], execResult[t].success)

\* _log_decision stores the decision in the shared logger and in
\* self._decisions; then task.status = COMPLETED and `return result`.
LogDecision(t) ==
    /\ pc[t] = "executed"
    /\ decisionLog' = Append(decisionLog, LoggedDecision(t))
    /\ decisions' = Append(decisions, LocalDecision(t))
    /\ SetStatus(t, COMPLETED)
    /\ returned' = [returned EXCEPT ![t] = execResult[t]]
    /\ pc' = [pc EXCEPT ![t] = "returned"]
    /\ UNCHANGED <<otherVars, cfgMode, tasks, override, selection, risk, request, execCalls,
                   execResult, fault>>

\* Variant of LogDecisionFails: task.status = COMPLETED is assigned before
\* the call of _log_decision, whose error then reaches the handler.
LogDecisionFailsAfterCompleted(t, exc) ==
    /\ pc[t] = "executed"
    /\ fault' = [fault EXCEPT ![t] = exc]
    /\ status' = [status EXCEPT ![t] = FAILED]
    /\ hist' = [hist EXCEPT ![t] = Append(Append(@, COMPLETED), FAILED)]
    /\ returned' = [returned EXCEPT ![t] = FailureResult(t, exc)]
    /\ pc' = [pc EXCEPT ![t] = "returned"]
    /\ UNCHANGED <<otherVars, cfgMode, tasks, override, selection, risk, request, execCalls,
                   execResult, decisions, decisionLog>>

\* Variant of LogDecisionFails: _log_decision appends the local record
\* first, and the call of the shared logger that follows raises.
LogDecisionFailsLocalFirst(t, exc) ==
    /\ pc[t] = "executed"
    /\ decisions' = Append(decisions, LocalDecision(t))
    /\ Raise(t, exc)
    /\ UNCHANGED <<otherVars, cfgMode, tasks, override, selection, risk, request, execCalls,
                   execResult, decisionLog>>

\* decision_logger.log_decision raises: nothing is stored and the error
\* reaches the handler of process_task.
LogDecisionFails(t, exc) ==
    /\ pc[t] = "executed"
    /\ Raise(t, exc)
    /\ UNCHANGED <<otherVars, cfgMode, tasks, override, selection, risk, request, execCalls,
                   execResult, decisions, decisionLog>>

\* ------------------------------------------------------------ cancellation

\* The asyncio task running process_task is cancelled while it is suspended
\* on the council selector or on the executor: CancelledError is raised at
\* that await.
Cancel(t) ==
    /\ pc[t] \in {"selecting", "executing"}
    /\ Raise(t, CancelledError)
    /\ UNCHANGED <<otherVars, cfgMode, tasks, override, selection, risk, request, execCalls,
                   execResult, decisions, decisionLog>>

\* ----------------------------------------------------------- specification

Next ==
    \/ \E t \in Tasks, m \in ApprovalMode \cup {None} : CreateTask(t, m)
    \/ \E t \in Tasks : BeginSelect(t)
    \/ \E t \in Tasks, a \in SelectionInputs : SelectorReturns(t, a)
    \/ \E t \in Tasks, e \in SelectorErrors : SelectorFails(t, e)
    \/ \E t \in Tasks : ResolveMode(t)
    \/ \E t \in Tasks, r \in RiskLevel, resp \in GateResponses : CheckApproval(t, r, resp)
    \/ \E t \in Tasks, r \in RiskLevel, c \in DOMAIN ApprovalCalls, e \in ApprovalErrors :
           ApprovalFails(t, r, c, e)
    \/ \E t \in Tasks : BeginExecute(t)
    \/ \E t \in Tasks, out \in ExecutorOutputs : ExecutorReturns(t, out)
    \/ \E t \in Tasks, e \in ExecutorErrors : ExecutorFails(t, e)
    \/ \E t \in Tasks : LogDecision(t)
    \/ \E t \in Tasks, e \in LoggerErrors : LogDecisionFails(t, e)
    \/ \E t \in Tasks : Cancel(t)

Spec == Init /\ [][Next]_allVars

\* ------------------------------------------------------------- properties

\* Position of a status along PENDING -> SELECTING -> AWAITING_APPROVAL ->
\* EXECUTING -> {COMPLETED, FAILED, REJECTED}.
Rank(s) ==
    CASE s = PENDING -> 0
      [] s = COUNCIL_SELECTING -> 1
      [] s = AWAITING_APPROVAL -> 2
      [] s = EXECUTING -> 3
      [] OTHER -> 4

Terminal == {COMPLETED, FAILED, REJECTED}

\* Number of records of task t in a decision sequence.
CountFor(seq, t) == Cardinality({i \in DOMAIN seq : seq[i].task_id = t})

\* process_task of task t has returned an ExecutionResult.
Returned(t) == pc[t] = "returned"

\* The executor adapter failed for task t: it raised, timed out, or returned
\* a result with success = false.
ExecutorFailed(t) ==
    \/ fault[t] \in ExecutorErrors
    \/ execResult[t].task_id = t /\ ~execResult[t].success

\* The error message of the failed adapter call.
AdapterError(t) ==
    IF fault[t] \in ExecutorErrors THEN Str(fault[t]) ELSE execResult[t].error

\* C1: the values assigned to task.status start at PENDING and move strictly
\* forward along the transition graph: none is assigned twice, none follows a
\* later one, and nothing follows a terminal status.
C1_StatusWalkForward ==
    \A t \in Tasks :
        /\ hist[t] # <<>> =>
               /\ hist[t][1] = PENDING
               /\ status[t] = hist[t][Len(hist[t])]
        /\ \A i, j \in DOMAIN hist[t] : i < j => Rank(hist[t][i]) < Rank(hist[t][j])
        /\ \A i \in DOMAIN hist[t] : hist[t][i] \in Terminal => i = Len(hist[t])

\* C1 witness: a gated task went through all five stages.
C1_Witness ==
    \E t \in Tasks :
        hist[t] = <<PENDING, COUNCIL_SELECTING, AWAITING_APPROVAL, EXECUTING, COMPLETED>>

\* C2: every Exception raised by the selector, the mode lookup, the approval
\* gate, the executor or the decision logger ends in a returned result with
\* success = false and status FAILED; process_task is left by an error only
\* when that error is no Exception.
C2_NeverRaises ==
    \A t \in Tasks :
        /\ fault[t] \in Exceptions =>
               /\ Returned(t)
               /\ ~returned[t].success
               /\ returned[t].error = Str(fault[t])
               /\ status[t] = FAILED
        /\ pc[t] = "raised" => fault[t] \notin Exceptions

\* C2 witness: the configured approval mode is invalid and the call returned.
C2_Witness ==
    \E t \in Tasks : fault[t].type = "ValueError" /\ Returned(t) /\ status[t] = FAILED

\* The effective approval mode of task t.
Mode(t) == EffectiveMode(override[t], cfgMode)

\* Status s was assigned to task t at some point.
Visited(t, s) == \E i \in DOMAIN hist[t] : hist[t][i] = s

\* The approval gate rejected task t: its request was answered with a
\* refusal, or the gate reported its expiry.
GateRejected(t) ==
    /\ request[t].created
    /\ \/ request[t].decided_by # "" /\ ~request[t].approved
       \/ fault[t].type = "ApprovalExpired"

\* C3: a task the approval gate rejected (by a refusal or by the expiry of
\* its request) is REJECTED, its result has success = false, and the executor
\* was never invoked for it.
C3_RejectionSkipsExecution ==
    \A t \in Tasks :
        GateRejected(t) =>
            /\ Returned(t)
            /\ status[t] = REJECTED
            /\ ~returned[t].success
            /\ execCalls[t] = 0
            /\ \A i \in DOMAIN hist[t] : hist[t][i] # EXECUTING

\* The response of a request came from a decide call.
DecidedExplicitly(req) == req.decided_by \notin {"", "auto", "expiry"}

\* Task t is gated: its effective mode requires approval for its risk level.
Gated(t) ==
    /\ ModeIsValid(override[t], cfgMode)
    /\ risk[t] # ""
    /\ RequiresApproval(Mode(t), risk[t])

\* C4: the executor is invoked for a gated task only when the task has an
\* approval request and that request got approved = true through decide; a
\* request without an approval never leads to execution.
C4_ExecutionOnlyAfterApproval ==
    \A t \in Tasks :
        /\ execCalls[t] > 0 /\ Gated(t) =>
               /\ request[t].created
               /\ request[t].approved
               /\ DecidedExplicitly(request[t])
        /\ request[t].created /\ ~request[t].approved => execCalls[t] = 0

\* C5: when the executor adapter fails, the task ends FAILED, the result
\* carries the adapter's error, and the decision is recorded (unless the
\* logger itself failed).
C5_ExecutorFailureFailsAndLogs ==
    \A t \in Tasks :
        Returned(t) /\ ExecutorFailed(t) /\ fault[t] \notin LoggerErrors =>
            /\ status[t] = FAILED
            /\ returned[t].error = AdapterError(t)
            /\ CountFor(decisionLog, t) = 1

\* C6: when process_task has returned, the status is COMPLETED exactly when
\* the returned result has success = true.
C6_CompletedIffSuccess ==
    \A t \in Tasks :
        Returned(t) => (status[t] = COMPLETED <=> returned[t].success)

\* C7: when process_task has returned after attempting execution, exactly one
\* decision of the task is recorded, with the outcome of the execution (unless
\* the logger itself failed).
C7_OneDecisionPerExecutedTask ==
    \A t \in Tasks :
        Returned(t) /\ execCalls[t] > 0 /\ fault[t] \notin LoggerErrors =>
            /\ CountFor(decisionLog, t) = 1
            /\ CountFor(decisions, t) = 1
            /\ \A i \in DOMAIN decisions :
                   decisions[i].task_id = t =>
                       (decisions[i].outcome = "success" <=> returned[t].success)

\* C8: a selector failure ends the task FAILED at once: no approval request,
\* no executor call, no decision.
C8_SelectorFailureStopsPipeline ==
    \A t \in Tasks :
        fault[t] \in SelectorErrors =>
            /\ Returned(t)
            /\ hist[t] = <<PENDING, COUNCIL_SELECTING, FAILED>>
            /\ ~returned[t].success
            /\ ~request[t].created
            /\ execCalls[t] = 0
            /\ CountFor(decisions, t) = 0
            /\ CountFor(decisionLog, t) = 0

\* C8 witness: the selector failed with QuorumFailure and the call returned.
C8_Witness ==
    \E t \in Tasks : fault[t].type = "QuorumFailure" /\ Returned(t) /\ status[t] = FAILED

\* C9: when the executor succeeded and logging the decision failed, the call
\* returns the executor's result and the task is COMPLETED.
C9_LoggingFailureKeepsOutcome ==
    \A t \in Tasks :
        Returned(t) /\ fault[t] \in LoggerErrors /\ execResult[t].success =>
            /\ returned[t] = execResult[t]
            /\ status[t] = COMPLETED

\* C10: a cancelled task is FAILED and its call returned a failure result
\* that reports the cancellation; it is never left in SELECTING,
\* AWAITING_APPROVAL or EXECUTING.
C10_CancelledTaskSettlesFailed ==
    \A t \in Tasks :
        fault[t] = CancelledError =>
            /\ status[t] = FAILED
            /\ Returned(t)
            /\ returned[t] = FailureResult(t, CancelledError)

\* C11: gating follows the effective mode: under AUTO the task never awaits
\* approval and has no request; under APPROVE_ALL a task that reaches the
\* executor has a request; under APPROVE_HIGH_RISK a request exists exactly
\* when the classified risk is HIGH.
C11_ModeSemantics ==
    \A t \in Tasks :
        ModeIsValid(override[t], cfgMode) =>
            /\ Mode(t) = AUTO =>
                   ~request[t].created /\ ~Visited(t, AWAITING_APPROVAL)
            /\ Mode(t) = APPROVE_ALL /\ execCalls[t] > 0 => request[t].created
            /\ Mode(t) = APPROVE_HIGH_RISK /\ risk[t] # "" =>
                   (request[t].created <=> risk[t] = "HIGH")

\* C12: the override, when passed, decides the gating whatever mode is
\* configured: a task under override APPROVE_ALL is gated once its risk is
\* classified, a task under override AUTO is not, and without an override
\* the configured mode decides.
C12_OverrideDecidesGating ==
    \A t \in Tasks :
        /\ override[t] = AUTO => ~request[t].created
        /\ override[t] = APPROVE_ALL /\ risk[t] # "" => request[t].created
        /\ override[t] = None /\ cfgMode \in ApprovalMode /\ risk[t] # "" =>
               (request[t].created <=> RequiresApproval(cfgMode, risk[t]))

\* C13: a task whose selection names an agent outside the configured set ends
\* FAILED without ever taking status EXECUTING or reaching the executor.
C13_UnknownAgentFailsBeforeExecution ==
    \A t \in Tasks :
        selection[t] = UnknownAgentName =>
            /\ execCalls[t] = 0
            /\ ~Visited(t, EXECUTING)
            /\ Returned(t) => status[t] = FAILED

\* C14: every returned result with success = false carries a non-empty error.
C14_FailureHasError ==
    \A t \in Tasks :
        Returned(t) /\ ~returned[t].success =>
            returned[t].error # None /\ returned[t].error # ""

\* C16: every recorded decision, in the shared log and in the local list, has
\* at most TopK alternatives, and the scored ones are in descending order of
\* score.
C16_AlternativesCapped ==
    /\ \A i \in DOMAIN decisionLog :
           LET alts == decisionLog[i].alternatives
           IN  /\ Len(alts) <= TopK
               /\ \A j, k \in DOMAIN alts : j < k => alts[j].score >= alts[k].score
    /\ \A i \in DOMAIN decisions : Len(decisions[i].alternatives) <= TopK

\* ------------------------------------------------- reading the decisions

\* Number of _log_decision calls, number of tasks they are made for, and the
\* largest limit of a read.
MaxLogged == 3
MaxLogTasks == 2
MaxLimit == 3

LogTasks == 1..MaxLogTasks

\* The variables of process_task other than the two decision stores.
pipelineRest ==
    <<cfgMode, pc, tasks, status, hist, override, selection, risk, request,
      execCalls, execResult, returned, fault>>

\* get_decisions(limit): self._decisions[-limit:], the last `limit` records
\* in the order of the list; [-0:] is the whole list.
GetDecisions(decs, limit) ==
    IF limit = 0
    THEN decs
    ELSE SubSeq(decs, Len(decs) - Min(limit, Len(decs)) + 1, Len(decs))

\* _log_decision runs for task t, for which agent was selected and executed
\* with the given success: one record goes to the shared logger, one to
\* self._decisions.
RecordDecision(t, agent, success) ==
    /\ Len(decisions) < MaxLogged
    /\ decisionLog' = Append(decisionLog, LoggedDecisionOf(t, agent))
    /\ decisions' = Append(decisions, LocalDecisionOf(t, agent, success))
    /\ UNCHANGED <<pipelineRest, logVars, gateVars, councilVars, meshVars, httpVars>>

\* A caller reads the audit trail with get_decisions(limit).
ReadDecisions(limit) ==
    /\ readLimit' = limit
    /\ readAt' = Len(decisions)
    /\ readResult' = GetDecisions(decisions, limit)
    /\ UNCHANGED <<vars, gateVars, councilVars, meshVars, httpVars>>

LogInit == Init /\ cfgMode = AUTO

LogNext ==
    \/ \E t \in LogTasks, a \in {"aider", "goose"}, ok \in BOOLEAN : RecordDecision(t, a, ok)
    \/ \E limit \in 0..MaxLimit : ReadDecisions(limit)

\* The decision stores under a sequence of logged tasks and reads.
SpecLog == LogInit /\ [][LogNext]_allVars

\* C15: a read with a positive limit returns as many records as were logged,
\* up to the limit, ordered from the newest to the oldest.
C15_ReadsNewestFirst ==
    readLimit > 0 =>
        /\ Len(readResult) = Min(readAt, readLimit)
        /\ \A i, j \in DOMAIN readResult :
               i < j => readResult[i].created_at > readResult[j].created_at

\* ------------------------------------------------------ the approval gate

\* Who can answer a request.
Deciders == {"alice", "bob"}

\* create_request: request r is recorded, without a response.
GateCreateRequest(r) ==
    /\ ~gateReq[r].created
    /\ \A q \in Requests : q < r => gateReq[q].created
    /\ gateReq' = [gateReq EXCEPT ![r].created = TRUE]
    /\ UNCHANGED <<vars, logVars, councilVars, meshVars, httpVars, timerFired, decideLog>>

\* Variant of DecideResult: the check for an earlier response is missing.
DecideResultNoDuplicateCheck(req) ==
    IF req.expired THEN "RequestExpired" ELSE "ok"

\* The result of decide(r, ...): DuplicateResponse when r has a response,
\* RequestExpired when r expired undecided, the commit otherwise.
DecideResult(req) ==
    IF req.response # "none" THEN "DuplicateResponse"
    ELSE IF req.expired THEN "RequestExpired"
    ELSE "ok"

\* decide(r, approved, decided_by): commits the response when the call is the
\* first outcome of r, and fails otherwise, leaving r as it is.
Decide(r, approved, decided_by) ==
    /\ gateReq[r].created
    /\ Len(decideLog) < MaxDecides
    /\ LET res == DecideResult(gateReq[r])
       IN  /\ decideLog' = Append(decideLog,
                   [request |-> r, approved |-> approved, decided_by |-> decided_by,
                    result |-> res])
           /\ gateReq' =
                  IF res = "ok"
                  THEN [gateReq EXCEPT
                            ![r].response = IF approved THEN "approved" ELSE "rejected",
                            ![r].decided_by = decided_by]
                  ELSE gateReq
    /\ UNCHANGED <<vars, logVars, councilVars, meshVars, httpVars, timerFired>>

\* Variant of ExpiryCommits: the timer marks the request expired without
\* looking at its response.
ExpiryCommitsUnchecked(req) == TRUE

\* Whether the firing expiry timer finds the request still undecided.
ExpiryCommits(req) == req.response = "none"

\* The expiry timer of r fires: an undecided request becomes expired, which
\* counts as rejected; a decided one stays as it is.
Expire(r) ==
    /\ gateReq[r].created
    /\ r \notin timerFired
    /\ timerFired' = timerFired \cup {r}
    /\ gateReq' =
           IF ExpiryCommits(gateReq[r])
           THEN [gateReq EXCEPT ![r].expired = TRUE]
           ELSE gateReq
    /\ UNCHANGED <<vars, logVars, councilVars, meshVars, httpVars, decideLog>>

GateInit == Init /\ cfgMode = APPROVE_ALL

GateNext ==
    \/ \E r \in Requests : GateCreateRequest(r)
    \/ \E r \in Requests, a \in BOOLEAN, d \in Deciders : Decide(r, a, d)
    \/ \E r \in Requests : Expire(r)

\* The approval requests under decide calls and expiry timers in any order.
SpecGate == GateInit /\ [][GateNext]_allVars

\* The decide calls on request r that committed, by position in decideLog.
Committed(r) ==
    {i \in DOMAIN decideLog : decideLog[i].request = r /\ decideLog[i].result = "ok"}

\* C17: a request has at most one response: after a decide committed, every
\* later decide on the same request fails with DuplicateResponse, and the
\* request keeps the response of the first.
C17_AtMostOneResponse ==
    \A r \in Requests :
        /\ Cardinality(Committed(r)) <= 1
        /\ \A i \in Committed(r) :
               /\ gateReq[r].response =
                      (IF decideLog[i].approved THEN "approved" ELSE "rejected")
               /\ gateReq[r].decided_by = decideLog[i].decided_by
               /\ \A j \in DOMAIN decideLog :
                      j > i /\ decideLog[j].request = r =>
                          decideLog[j].result = "DuplicateResponse"

\* C17 witness: a second decide, with the opposite answer, failed.
C17_Witness ==
    \E i, j \in DOMAIN decideLog :
        /\ i < j
        /\ decideLog[i].request = decideLog[j].request
        /\ decideLog[i].result = "ok"
        /\ decideLog[j].result = "DuplicateResponse"
        /\ decideLog[i].approved # decideLog[j].approved

\* C18: when the expiry timer and decide meet on a request, exactly one
\* commits: the request is never both answered and expired, it has an outcome
\* once its timer fired, and a decide on an expired request fails with
\* RequestExpired.
C18_ExpiryRaceOneOutcome ==
    \A r \in Requests :
        /\ ~(gateReq[r].response # "none" /\ gateReq[r].expired)
        /\ r \in timerFired => (gateReq[r].response # "none" \/ gateReq[r].expired)
        /\ gateReq[r].expired => Committed(r) = {}
        /\ gateReq[r].expired =>
               \A i \in DOMAIN decideLog :
                   decideLog[i].request = r =>
                       decideLog[i].result \in {"RequestExpired", "DuplicateResponse"}

\* C18 witness: the timer fired on a request that a decide had answered, and
\* the request kept the answer.
C18_Witness ==
    \E r \in Requests :
        /\ r \in timerFired
        /\ gateReq[r].response = "approved"
        /\ ~gateReq[r].expired

\* ------------------------------------------------- the council selection

\* The agents the voters choose among, and the rankings they can give.
CouncilAgents == {"aider", "claude"}
CouncilRankings == {<<"aider", "claude">>, <<"claude", "aider">>}

\* The voters of vs that responded.
Responders(vs) == {v \in Voters : vs[v].state = "responded"}

\* Every voter of vs responded, errored or timed out.
AllSettled(vs) == \A v \in Voters : vs[v].state # "pending"

\* The aggregation rule over the set of (voter, vote, ranking) tuples of the
\* responders: VoteCount, RankSum, Beats and Winner.

\* Number of primary votes for agent a.
VoteCount(vs, a) == Cardinality({v \in Responders(vs) : vs[v].selected_agent = a})

\* Position of agent a in a ranking, first place = 0; past the end when the
\* ranking does not name it.
Position(a, ranking) ==
    IF \E i \in DOMAIN ranking : ranking[i] = a
    THEN (CHOOSE i \in DOMAIN ranking : ranking[i] = a) - 1
    ELSE Len(ranking)

RECURSIVE RankSumOver(_, _, _)
\* Sum of the positions of agent a in the rankings of the voters in S.
RankSumOver(vs, a, S) ==
    IF S = {}
    THEN 0
    ELSE LET v == CHOOSE x \in S : TRUE
         IN  Position(a, vs[v].ranking) + RankSumOver(vs, a, S \ {v})

RankSum(vs, a) == RankSumOver(vs, a, Responders(vs))

\* Place of an agent name in ascending lexical order; the configured names
\* are listed in that order.
LexIndex(a) == CHOOSE i \in DOMAIN AgentNames : AgentNames[i] = a

\* Agent a beats agent b: more votes, then the lower rank sum, then the
\* lexically smaller name.
Beats(vs, a, b) ==
    \/ VoteCount(vs, a) > VoteCount(vs, b)
    \/ /\ VoteCount(vs, a) = VoteCount(vs, b)
       /\ RankSum(vs, a) < RankSum(vs, b)
    \/ /\ VoteCount(vs, a) = VoteCount(vs, b)
       /\ RankSum(vs, a) = RankSum(vs, b)
       /\ LexIndex(a) < LexIndex(b)

\* The agent the aggregation selects among those that got a vote.
Winner(vs) ==
    LET voted == {vs[v].selected_agent : v \in Responders(vs)}
    IN  CHOOSE a \in voted : \A b \in voted \ {a} : Beats(vs, a, b)

\* The votes of the responders, in the order the selector collected them.
VoteList(vs, order) ==
    [i \in DOMAIN order |->
        [model |-> order[i], selected_agent |-> vs[order[i]].selected_agent]]

\* The rankings of the responders, in the same order.
RankingList(vs, order) ==
    [i \in DOMAIN order |-> [model |-> order[i], ranking |-> vs[order[i]].ranking]]

\* Number of votes in the list for agent a.
Tally(votes, a) == Cardinality({i \in DOMAIN votes : votes[i].selected_agent = a})

RECURSIVE PositionSum(_, _)
\* Sum of the positions of agent a over the rankings of the list.
PositionSum(rankings, a) ==
    IF rankings = <<>>
    THEN 0
    ELSE Position(a, Head(rankings).ranking) + PositionSum(Tail(rankings), a)

\* Variant of Preferred: the rank sums are left out of the tie-break.
PreferredVotesThenName(votes, rankings, a, b) ==
    \/ Tally(votes, a) > Tally(votes, b)
    \/ Tally(votes, a) = Tally(votes, b) /\ LexIndex(a) < LexIndex(b)

\* The aggregation prefers a to b: the sort key (-votes, rank sum, name) of a
\* is smaller.
Preferred(votes, rankings, a, b) ==
    \/ Tally(votes, a) > Tally(votes, b)
    \/ /\ Tally(votes, a) = Tally(votes, b)
       /\ PositionSum(rankings, a) < PositionSum(rankings, b)
    \/ /\ Tally(votes, a) = Tally(votes, b)
       /\ PositionSum(rankings, a) = PositionSum(rankings, b)
       /\ LexIndex(a) < LexIndex(b)

\* Variant of Aggregate: among the agents with the most votes, the one whose
\* vote came in first.
AggregateFirstAmongTied(votes, rankings) ==
    LET first == CHOOSE i \in DOMAIN votes :
                     /\ \A j \in DOMAIN votes :
                            Tally(votes, votes[i].selected_agent)
                                >= Tally(votes, votes[j].selected_agent)
                     /\ \A j \in 1..(i - 1) :
                            Tally(votes, votes[j].selected_agent)
                                < Tally(votes, votes[i].selected_agent)
    IN  votes[first].selected_agent

\* The agent the aggregation selects from the collected votes and rankings.
Aggregate(votes, rankings) ==
    LET voted == {votes[i].selected_agent : i \in DOMAIN votes}
    IN  CHOOSE a \in voted : \A b \in voted \ {a} : Preferred(votes, rankings, a, b)

\* What select_agent returns when quorum is met: the winner, the confidence
\* votes_for_winner / responders, and one vote and one ranking per responder,
\* with the responders taken in the given order.
CouncilSuccess(vs, order) ==
    LET votes == VoteList(vs, order)
        rankings == RankingList(vs, order)
        winner == Aggregate(votes, rankings)
    IN  [kind |-> "ok",
         selected_agent |-> winner,
         confidence |-> <<Tally(votes, winner), Len(votes)>>,
         votes |-> votes,
         rankings |-> rankings]

\* select_agent fails: too few voters responded.
CouncilFailure == [NoCouncilResult EXCEPT !.kind = "QuorumFailure"]

\* The council is still collecting votes.
Collecting == councilResult.kind = "none"

\* Voter v answers with its chosen agent and its ranking.
VoterResponds(v, a, ranking) ==
    /\ Collecting
    /\ voter[v].state = "pending"
    /\ voter' = [voter EXCEPT ![v] =
           [state |-> "responded", selected_agent |-> a, ranking |-> ranking]]
    /\ arrival' = Append(arrival, v)
    /\ UNCHANGED <<vars, logVars, gateVars, meshVars, httpVars,
                   councilResult, agentSelection>>

\* Voter v runs into its timeout or raises.
VoterDrops(v, how) ==
    /\ Collecting
    /\ voter[v].state = "pending"
    /\ voter' = [voter EXCEPT ![v].state = how]
    /\ UNCHANGED <<vars, logVars, gateVars, meshVars, httpVars,
                   arrival, councilResult,
                   agentSelection>>

\* Variant of CouncilSelects: the selector gathers every voter before it
\* goes on.
CouncilSelectsWhenAllSettled ==
    /\ Collecting
    /\ AllSettled(voter)
    /\ councilResult' =
           IF Cardinality(Responders(voter)) >= Quorum
           THEN CouncilSuccess(voter, arrival)
           ELSE CouncilFailure
    /\ UNCHANGED <<vars, logVars, gateVars, meshVars, httpVars,
                   voter, arrival, agentSelection>>

\* The selector proceeds once quorum is reached or every voter settled: it
\* aggregates when at least Quorum voters responded and fails otherwise.
CouncilSelects ==
    /\ Collecting
    /\ Cardinality(Responders(voter)) >= Quorum \/ AllSettled(voter)
    /\ councilResult' =
           IF Cardinality(Responders(voter)) >= Quorum
           THEN CouncilSuccess(voter, arrival)
           ELSE CouncilFailure
    /\ UNCHANGED <<vars, logVars, gateVars, meshVars, httpVars,
                   voter, arrival, agentSelection>>

\* Variant of VotesDict: one entry for every configured voter, empty for
\* those without a vote.
VotesDictAllVoters(votes) ==
    [m \in Voters |->
        IF \E i \in DOMAIN votes : votes[i].model = m
        THEN votes[CHOOSE i \in DOMAIN votes : votes[i].model = m].selected_agent
        ELSE ""]

\* {v.model: v.selected_agent for v in council_result.votes}: one entry per
\* model in the list, the last one winning.
VotesDict(votes) ==
    [m \in {votes[i].model : i \in DOMAIN votes} |->
        LET last == CHOOSE i \in DOMAIN votes :
                        /\ votes[i].model = m
                        /\ \A j \in DOMAIN votes : votes[j].model = m => j <= i
        IN  votes[last].selected_agent]

\* {r.model: r.ranking for r in council_result.rankings}
RankingsDict(rankings) ==
    [m \in {rankings[i].model : i \in DOMAIN rankings} |->
        LET last == CHOOSE i \in DOMAIN rankings :
                        /\ rankings[i].model = m
                        /\ \A j \in DOMAIN rankings : rankings[j].model = m => j <= i
        IN  rankings[last].ranking]

\* _select_agent after select_agent returned: the AgentSelection.
SelectAgentReturns ==
    /\ councilResult.kind = "ok"
    /\ agentSelection.kind = "none"
    /\ agentSelection' =
           [kind |-> "ok",
            selected_agent |-> councilResult.selected_agent,
            confidence |-> councilResult.confidence,
            votes |-> VotesDict(councilResult.votes),
            rankings |-> RankingsDict(councilResult.rankings)]
    /\ UNCHANGED <<vars, logVars, gateVars, meshVars, httpVars,
                   voter, arrival, councilResult>>

\* Variant of SelectAgentRaises: _select_agent catches the failure and
\* returns a selection of the first configured agent.
SelectAgentRaisesDefault ==
    /\ councilResult.kind = "QuorumFailure"
    /\ agentSelection.kind = "none"
    /\ agentSelection' =
           [kind |-> "ok", selected_agent |-> AgentNames[1], confidence |-> <<0, 1>>,
            votes |-> <<>>, rankings |-> <<>>]
    /\ UNCHANGED <<vars, logVars, gateVars, meshVars, httpVars,
                   voter, arrival, councilResult>>

\* _select_agent when select_agent raised: the error passes through and no
\* AgentSelection is built.
SelectAgentRaises ==
    /\ councilResult.kind = "QuorumFailure"
    /\ agentSelection.kind = "none"
    /\ agentSelection' = [NoCouncilResult EXCEPT !.kind = "raised"]
    /\ UNCHANGED <<vars, logVars, gateVars, meshVars, httpVars,
                   voter, arrival, councilResult>>

CouncilInit == Init /\ cfgMode = AUTO

CouncilNext ==
    \/ \E v \in Voters, a \in CouncilAgents, rk \in CouncilRankings :
           VoterResponds(v, a, rk)
    \/ \E v \in Voters, how \in {"timeout", "error"} : VoterDrops(v, how)
    \/ CouncilSelects
    \/ SelectAgentReturns
    \/ SelectAgentRaises

\* One council selection, from the fan-out to the AgentSelection.
SpecCouncil == CouncilInit /\ [][CouncilNext]_allVars

\* C19: an AgentSelection exists only when at least Quorum voters responded;
\* with fewer the selection fails with QuorumFailure and none is built.
C19_QuorumEnforced ==
    /\ agentSelection.kind = "ok" => Cardinality(Responders(voter)) >= Quorum
    /\ councilResult.kind = "QuorumFailure" =>
           /\ Cardinality(Responders(voter)) < Quorum
           /\ agentSelection.kind # "ok"
    /\ AllSettled(voter) /\ Cardinality(Responders(voter)) < Quorum =>
           councilResult.kind # "ok"

\* C19 witness: one voter responded, the others timed out, and the selection
\* failed.
C19_Witness ==
    /\ Cardinality(Responders(voter)) = 1
    /\ Cardinality({v \in Voters : voter[v].state = "timeout"}) = MaxVoters - 1
    /\ councilResult.kind = "QuorumFailure"
    /\ agentSelection.kind = "raised"

\* C20: a voter that timed out or errored has no entry in the votes and in the
\* rankings of the AgentSelection, whose entries are those of the responders;
\* and with quorum met the selection does not fail.
C20_DroppedVoterContributesNothing ==
    /\ agentSelection.kind = "ok" =>
           /\ \A v \in Voters :
                  voter[v].state \in {"timeout", "error"} =>
                      /\ v \notin DOMAIN agentSelection.votes
                      /\ v \notin DOMAIN agentSelection.rankings
           /\ DOMAIN agentSelection.votes = Responders(voter)
           /\ DOMAIN agentSelection.rankings = Responders(voter)
    /\ Cardinality(Responders(voter)) >= Quorum =>
           councilResult.kind # "QuorumFailure" /\ agentSelection.kind # "raised"

\* C20 witness: a selection was built although one voter timed out.
C20_Witness ==
    /\ agentSelection.kind = "ok"
    /\ \E v \in Voters : voter[v].state = "timeout"
    /\ \E v \in Voters : voter[v].state = "error" \/ voter[v].state = "responded"

\* The selector coroutine runs once it can go on; no voter is required to
\* settle.
SpecCouncilLive == SpecCouncil /\ WF_allVars(CouncilSelects)

\* The agents that got a vote.
Voted(vs) == {vs[v].selected_agent : v \in Responders(vs)}

\* C21: the selected agent has the most primary votes of the responders; among
\* those with as many votes it has the lowest sum of ranking positions, and
\* among those still tied the lexically smallest name.  Votes claude and
\* aider with rankings [claude, aider] and [aider, claude] select aider; votes
\* claude, claude, aider select claude with confidence 2/3.
C21_AggregationRule ==
    councilResult.kind = "ok" =>
        LET w == councilResult.selected_agent
        IN  /\ w \in Voted(voter)
            /\ \A b \in Voted(voter) \ {w} : Beats(voter, w, b)
            /\ \A m1, m2 \in Voters :
                   /\ Responders(voter) = {m1, m2}
                   /\ m1 # m2
                   /\ voter[m1].selected_agent = "claude"
                   /\ voter[m1].ranking = <<"claude", "aider">>
                   /\ voter[m2].selected_agent = "aider"
                   /\ voter[m2].ranking = <<"aider", "claude">>
                   => w = "aider"
            /\ /\ Cardinality(Responders(voter)) = 3
               /\ VoteCount(voter, "claude") = 2
               /\ VoteCount(voter, "aider") = 1
               => w = "claude" /\ councilResult.confidence = <<2, 3>>

\* C21 witness: one vote each for claude and aider, the rank sums differ in
\* favour of claude, and claude was selected against the lexical order.
C21_Witness ==
    /\ councilResult.kind = "ok"
    /\ VoteCount(voter, "claude") = 1
    /\ VoteCount(voter, "aider") = 1
    /\ RankSum(voter, "claude") < RankSum(voter, "aider")
    /\ councilResult.selected_agent = "claude"

\* The orders in which the voters of S can have answered.
Orders(S) ==
    {order \in [1..Cardinality(S) -> S] :
        \A i, j \in 1..Cardinality(S) : i # j => order[i] # order[j]}

\* C22: the selected agent and the confidence are those the selector gives
\* for every order of arrival of the same (voter, vote, ranking) tuples, and
\* the confidence is votes_for_winner / responding voters.
C22_SelectionDeterministic ==
    councilResult.kind = "ok" =>
        /\ \A order \in Orders(Responders(voter)) :
               /\ CouncilSuccess(voter, order).selected_agent
                      = councilResult.selected_agent
               /\ CouncilSuccess(voter, order).confidence = councilResult.confidence
        /\ councilResult.selected_agent = Winner(voter)
        /\ councilResult.confidence =
               <<VoteCount(voter, councilResult.selected_agent),
                 Cardinality(Responders(voter))>>

\* C22 witness: a tie in votes and in rank sums, with the answers arriving
\* against the order of the voters, and the vote for the loser first.
C22_Witness ==
    /\ councilResult.kind = "ok"
    /\ Len(arrival) = 2
    /\ arrival[1] > arrival[2]
    /\ voter[arrival[1]].selected_agent # councilResult.selected_agent
    /\ voter[arrival[2]].selected_agent = councilResult.selected_agent
    /\ RankSum(voter, "aider") = RankSum(voter, "claude")

\* The condition under which the selector goes on.
QuorumOrAllSettled ==
    Cardinality(Responders(voter)) >= Quorum \/ AllSettled(voter)

\* C23: the selector never goes on before quorum is reached or every voter
\* settled, and once either holds it goes on, whether or not the remaining
\* voters ever settle.
C23_ProceedsAtQuorumOrAllSettled ==
    /\ [](~Collecting => QuorumOrAllSettled)
    /\ (Collecting /\ QuorumOrAllSettled) ~> ~Collecting

\* C23 witness: the selection was made on a quorum while a voter was still
\* outstanding.
C23_Witness ==
    /\ councilResult.kind = "ok"
    /\ \E v \in Voters : voter[v].state = "pending"
    /\ Cardinality(Responders(voter)) = Quorum

\* ------------------------------------------------- the mesh coordinator

\* The configured maximum delegation depth, the number of tasks that
\* delegate, and the number of record_delegation calls.
MaxDepth == 2
MaxMeshTasks == 2
MaxMeshCalls == 3

MeshTasks == 1..MaxMeshTasks

\* The agents that delegate to one another.
MeshAgents == {"aider", "claude", "codex", "gemini"}

\* get_delegations(task_id): the records of the task, in insertion order.
GetDelegations(recs, task_id) == SelectSeq(recs, LAMBDA r : r.task_id = task_id)

\* The delegation edges of a task.
Edges(recs, task_id) ==
    {<<recs[i].from_agent, recs[i].to_agent>> :
        i \in {j \in DOMAIN recs : recs[j].task_id = task_id}}

RECURSIVE Upstream(_, _)
\* The agents of S together with every agent a chain of edges leads from to
\* an agent of S.
Upstream(edges, S) ==
    LET parents == {e[1] : e \in {f \in edges : f[2] \in S}}
    IN  IF parents \subseteq S THEN S ELSE Upstream(edges, S \cup parents)

\* The ancestors of an agent in the delegation chain of a task.
Ancestors(recs, task_id, agent) ==
    LET edges == Edges(recs, task_id)
    IN  Upstream(edges, {e[1] : e \in {f \in edges : f[2] = agent}})

RECURSIVE MaxOf(_)
\* The largest number of a finite set, 0 for the empty set.
MaxOf(S) ==
    IF S = {}
    THEN 0
    ELSE LET x == CHOOSE y \in S : TRUE
             m == MaxOf(S \ {x})
         IN  IF x > m THEN x ELSE m

\* The depth at which an agent stands in the chain of a task: that of the
\* deepest hop into it, 0 for an agent nobody delegated to.
DepthOf(recs, task_id, agent) ==
    MaxOf({recs[i].depth :
              i \in {j \in DOMAIN recs :
                        recs[j].task_id = task_id /\ recs[j].to_agent = agent}})

\* Variant of HopDepth: every hop counts as the first of its chain.
HopDepthFlat(recs, task_id, from_agent) == 1

\* The depth of a hop out of from_agent: the length of the chain it ends.
HopDepth(recs, task_id, from_agent) == DepthOf(recs, task_id, from_agent) + 1

\* The outcome of record_delegation(task_id, from_agent, to_agent, ...).
DelegationResult(recs, task_id, from_agent, to_agent) ==
    IF to_agent \in Ancestors(recs, task_id, from_agent)
    THEN "DelegationCycleDetected"
    ELSE IF HopDepth(recs, task_id, from_agent) > MaxDepth
    THEN "DelegationDepthExceeded"
    ELSE "ok"

\* The records after rec was stored.
StoreRecord(recs, rec) == Append(recs, rec)

\* record_delegation(task_id, from_agent, to_agent, preview): stores the
\* DelegationRecord of the hop, or fails and stores nothing.
RecordDelegation(task_id, from_agent, to_agent) ==
    /\ Len(meshCalls) < MaxMeshCalls
    /\ \A u \in MeshTasks :
           u < task_id => \E i \in DOMAIN meshCalls : meshCalls[i].task_id = u
    /\ LET res == DelegationResult(delegations, task_id, from_agent, to_agent)
           rec == [task_id |-> task_id, from_agent |-> from_agent,
                   to_agent |-> to_agent,
                   depth |-> HopDepth(delegations, task_id, from_agent)]
           recs == IF res = "ok" THEN StoreRecord(delegations, rec) ELSE delegations
       IN  /\ delegations' = recs
           /\ meshCalls' = Append(meshCalls,
                  [task_id |-> task_id, from_agent |-> from_agent,
                   to_agent |-> to_agent, result |-> res, stored |-> Len(recs)])
    /\ UNCHANGED <<vars, logVars, gateVars, councilVars, httpVars>>

MeshInit == Init /\ cfgMode = AUTO

MeshNext ==
    \E t \in MeshTasks, a \in MeshAgents, b \in MeshAgents : RecordDelegation(t, a, b)

\* The mesh coordinator under a sequence of record_delegation calls.
SpecMesh == MeshInit /\ [][MeshNext]_allVars

\* The number of records before call i.
StoredBefore(i) == IF i = 1 THEN 0 ELSE meshCalls[i - 1].stored

RECURSIVE Downstream(_, _)
\* The agents of S together with every agent a chain of edges leads to from
\* an agent of S.
Downstream(edges, S) ==
    LET children == {e[2] : e \in {f \in edges : f[1] \in S}}
    IN  IF children \subseteq S THEN S ELSE Downstream(edges, S \cup children)

\* A chain of one or more edges leads from agent a to agent b.
Leads(edges, a, b) ==
    b \in Downstream(edges, {e[2] : e \in {f \in edges : f[1] = a}})

\* The edges contain a cycle.
HasCycle(edges) == \E a \in MeshAgents : Leads(edges, a, a)

\* C24: the delegation records of every task are free of cycles; a call whose
\* to_agent a chain of that task's records already leads to from_agent
\* fails with DelegationCycleDetected and stores nothing, as does a call B->A
\* after A->B.
C24_DelegationsAcyclic ==
    /\ \A t \in MeshTasks : ~HasCycle(Edges(delegations, t))
    /\ \A j \in DOMAIN meshCalls :
           LET c == meshCalls[j]
               before == SubSeq(delegations, 1, StoredBefore(j))
           IN  /\ Leads(Edges(before, c.task_id), c.to_agent, c.from_agent) =>
                      /\ c.result = "DelegationCycleDetected"
                      /\ c.stored = StoredBefore(j)
               /\ \A i \in 1..(j - 1) :
                      /\ meshCalls[i].result = "ok"
                      /\ meshCalls[i].task_id = c.task_id
                      /\ meshCalls[i].from_agent = c.to_agent
                      /\ meshCalls[i].to_agent = c.from_agent
                      => c.result = "DelegationCycleDetected"

\* C25: no record has a depth above MaxDepth; a hop out of the agent a stored
\* hop led to lies deeper than that hop; a hop to a new agent out of an agent
\* that stands above MaxDepth succeeds, and a hop out of an agent at MaxDepth
\* fails and stores nothing.
C25_DepthBounded ==
    /\ \A i \in DOMAIN delegations :
           delegations[i].depth >= 1 /\ delegations[i].depth <= MaxDepth
    /\ \A i, j \in DOMAIN delegations :
           /\ i < j
           /\ delegations[i].task_id = delegations[j].task_id
           /\ delegations[i].to_agent = delegations[j].from_agent
           => delegations[j].depth > delegations[i].depth
    /\ \A j \in DOMAIN meshCalls :
           LET c == meshCalls[j]
               before == GetDelegations(SubSeq(delegations, 1, StoredBefore(j)), c.task_id)
               into == {i \in DOMAIN before : before[i].to_agent = c.from_agent}
               fresh == \A i \in DOMAIN before :
                            c.to_agent \notin {before[i].from_agent, before[i].to_agent}
           IN  /\ (\E i \in into : before[i].depth >= MaxDepth) =>
                      c.result # "ok" /\ c.stored = StoredBefore(j)
               /\ (\A i \in into : before[i].depth < MaxDepth) /\ fresh =>
                      c.result = "ok" /\ c.stored = StoredBefore(j) + 1
               /\ c.result = "DelegationDepthExceeded" =>
                      \E i \in into : before[i].depth = MaxDepth

\* C25 witness: a chain of MaxDepth hops was stored and the next hop, to a
\* new agent, failed with DelegationDepthExceeded.
C25_Witness ==
    /\ Len(meshCalls) = MaxDepth + 1
    /\ \A i \in 1..MaxDepth :
           /\ meshCalls[i].result = "ok"
           /\ meshCalls[i].task_id = meshCalls[1].task_id
           /\ meshCalls[i].to_agent = meshCalls[i + 1].from_agent
    /\ meshCalls[MaxDepth + 1].task_id = meshCalls[1].task_id
    /\ meshCalls[MaxDepth + 1].result = "DelegationDepthExceeded"
    /\ Len(delegations) = MaxDepth
    /\ delegations[MaxDepth].depth = MaxDepth

\* ------------------------------------- the shared stores under several tasks

\* The agents that delegate while several tasks share the stores.
SharedAgents == {"aider", "claude", "codex"}

SharedInit == Init /\ cfgMode = AUTO

SharedNext ==
    \/ \E t \in MeshTasks, a \in SharedAgents, b \in SharedAgents :
           RecordDelegation(t, a, b)
    \/ \E t \in MeshTasks, a \in {"aider"}, ok \in {TRUE} : RecordDecision(t, a, ok)

\* Several tasks append to the mesh coordinator and to the decision stores
\* in any interleaving; every append is one uninterrupted call.
SpecShared == SharedInit /\ [][SharedNext]_allVars

\* The calls of a task that stored a record, in the order they were made.
StoredCalls(t) ==
    SelectSeq(meshCalls, LAMBDA c : c.task_id = t /\ c.result = "ok")

\* C26: whatever the interleaving with other tasks, get_delegations of a task
\* returns the records of its successful calls in the order of those calls,
\* and a read of the decisions returns the records of a task in the reverse
\* of the order in which they were logged, the newest first.
C26_PerTaskOrderKept ==
    \A t \in MeshTasks :
        /\ LET recs == GetDelegations(delegations, t)
               calls == StoredCalls(t)
           IN  /\ Len(recs) = Len(calls)
               /\ \A i \in DOMAIN recs :
                      /\ recs[i].task_id = t
                      /\ recs[i].from_agent = calls[i].from_agent
                      /\ recs[i].to_agent = calls[i].to_agent
        /\ \A limit \in 1..MaxLimit :
               LET read == GetDecisions(decisions, limit)
                   mine == SelectSeq(read, LAMBDA d : d.task_id = t)
               IN  /\ limit >= Len(decisions) => Len(mine) = CountFor(decisions, t)
                   /\ \A i, j \in DOMAIN mine :
                          i < j => mine[i].created_at > mine[j].created_at
        /\ CountFor(decisionLog, t) = CountFor(decisions, t)

\* ---------------------------------------------------- progress of a call

\* A step of the process_task call of task t other than its creation and its
\* cancellation: the coroutine runs on, or the collaborator it awaits settles.
TaskStep(t) ==
    \/ BeginSelect(t)
    \/ \E a \in SelectionInputs : SelectorReturns(t, a)
    \/ \E e \in SelectorErrors : SelectorFails(t, e)
    \/ ResolveMode(t)
    \/ \E r \in RiskLevel, resp \in GateResponses : CheckApproval(t, r, resp)
    \/ \E r \in RiskLevel, c \in DOMAIN ApprovalCalls, e \in ApprovalErrors :
           ApprovalFails(t, r, c, e)
    \/ BeginExecute(t)
    \/ \E out \in ExecutorOutputs : ExecutorReturns(t, out)
    \/ \E e \in ExecutorErrors : ExecutorFails(t, e)
    \/ LogDecision(t)
    \/ \E e \in LoggerErrors : LogDecisionFails(t, e)

\* The event loop runs every call that can go on, and every awaited
\* collaborator call settles.
SpecLive == Spec /\ \A t \in Tasks : WF_allVars(TaskStep(t))

\* C28: every call that is not cancelled returns a result, with its task in a
\* terminal status.
C28_EveryCallReturns ==
    \A t \in Tasks :
        (pc[t] = "created") ~>
            \/ Returned(t) /\ status[t] \in Terminal /\ returned[t].task_id = t
            \/ fault[t] = CancelledError

\* C28 witness: the executor timed out and the call returned with FAILED.
C28_Witness ==
    \E t \in Tasks :
        /\ fault[t].type = "ExecutorTimeout"
        /\ Returned(t)
        /\ status[t] = FAILED
        /\ returned[t].task_id = t

\* C29: the approval gate is reached only with a selection; the executor is
\* called only with a selection and, under a gating mode, after the approval
\* stage, with the request, if one was made, approved; the decision is stored
\* only after the executor returned; no stage runs twice.
C29_StagesInOrder ==
    \A t \in Tasks :
        /\ Visited(t, AWAITING_APPROVAL) \/ request[t].created => selection[t] # ""
        /\ execCalls[t] >= 1 =>
               /\ selection[t] # ""
               /\ request[t].created => request[t].approved
               /\ Mode(t) # AUTO => Visited(t, AWAITING_APPROVAL)
        /\ CountFor(decisions, t) >= 1 \/ CountFor(decisionLog, t) >= 1 =>
               /\ execCalls[t] = 1
               /\ execResult[t].task_id = t
        /\ execCalls[t] <= 1
        /\ CountFor(decisions, t) <= 1
        /\ CountFor(decisionLog, t) <= 1
        /\ \A i, j \in DOMAIN hist[t] : i < j => hist[t][i] # hist[t][j]

\* C29 witness: a gated task ran all four stages.
C29_Witness ==
    \E t \in Tasks :
        /\ selection[t] \in Agents
        /\ request[t].created
        /\ request[t].approved
        /\ execCalls[t] = 1
        /\ CountFor(decisions, t) = 1
        /\ Returned(t)

\* C30: a task is in the registry from its creation on, it is there with a
\* terminal status when the call has returned, and no step takes a task out.
C30_RegistryOnlyGrows ==
    /\ [](\A t \in Tasks :
              /\ pc[t] # "idle" => t \in tasks
              /\ Returned(t) => t \in tasks /\ status[t] \in Terminal)
    /\ [][tasks \subseteq tasks']_allVars

\* C30 witness: a rejected task is still in the registry.
C30_Witness ==
    \E t \in Tasks : Returned(t) /\ status[t] = REJECTED /\ t \in tasks

\* --------------------------------------------------- several calls in flight

\* Number of process_task calls in flight at once.
MaxConcurrent == 2

ConcurrentTasks == 1..MaxConcurrent

\* An orchestrator configured with APPROVE_ALL.
ConcurrentInit == InitOver(ConcurrentTasks) /\ cfgMode = APPROVE_ALL

\* The calls interleave at their awaits; the inputs of a call are a few of
\* each kind.
ConcurrentNext ==
    \/ \E t \in ConcurrentTasks, m \in {None, AUTO} : CreateTask(t, m)
    \/ \E t \in ConcurrentTasks : BeginSelect(t)
    \/ \E t \in ConcurrentTasks, a \in {"aider", "claude"} : SelectorReturns(t, a)
    \/ \E t \in ConcurrentTasks, e \in SelectorErrors : SelectorFails(t, e)
    \/ \E t \in ConcurrentTasks : ResolveMode(t)
    \/ \E t \in ConcurrentTasks, r \in {"LOW"},
          resp \in GateResponses : CheckApproval(t, r, resp)
    \/ \E t \in ConcurrentTasks, r \in {"LOW"}, c \in {4}, e \in ApprovalErrors :
           ApprovalFails(t, r, c, e)
    \/ \E t \in ConcurrentTasks : BeginExecute(t)
    \/ \E t \in ConcurrentTasks, out \in ExecutorOutputs : ExecutorReturns(t, out)
    \/ \E t \in ConcurrentTasks, e \in {x \in ExecutorErrors : x.type = "ExecutorError"} : ExecutorFails(t, e)
    \/ \E t \in ConcurrentTasks : LogDecision(t)
    \/ \E t \in ConcurrentTasks, e \in LoggerErrors : LogDecisionFails(t, e)
    \/ \E t \in ConcurrentTasks : Cancel(t)

SpecConcurrent == ConcurrentInit /\ [][ConcurrentNext]_allVars

\* C27: every call has its own id and its own registry entry, and a step
\* that changes the status or a result of a task is a step of that task's own
\* call and of no other.
C27_TasksIndependent ==
    /\ [](/\ tasks = {t \in ConcurrentTasks : pc[t] # "idle"}
          /\ \A t \in ConcurrentTasks :
                 /\ returned[t].task_id \in {0, t}
                 /\ execResult[t].task_id \in {0, t})
    /\ [][\A t \in ConcurrentTasks :
              \/ status'[t] # status[t]
              \/ hist'[t] # hist[t]
              \/ execResult'[t] # execResult[t]
              \/ returned'[t] # returned[t]
              => /\ pc'[t] # pc[t]
                 /\ \A u \in ConcurrentTasks \ {t} : pc'[u] = pc[u]]_allVars

\* C27 witness: a later call was rejected while an earlier one is still
\* executing.
C27_Witness ==
    \E t, u \in ConcurrentTasks :
        /\ t < u
        /\ pc[t] = "executing"
        /\ status[t] = EXECUTING
        /\ Returned(u)
        /\ status[u] = REJECTED

\* C31: every local Decision has an entry of the same task and the same
\* selected agent in the shared decision log (the two titles name the agent
\* in different words), the local list is never longer than the log, and a
\* task has at most one local Decision.
C31_LocalNeverAheadOfLog ==
    /\ Len(decisions) <= Len(decisionLog)
    /\ \A i \in DOMAIN decisions :
           \E j \in DOMAIN decisionLog, a \in SelectableAgents :
               /\ decisionLog[j].task_id = decisions[i].task_id
               /\ decisions[i].title = LocalTitle(a)
               /\ decisionLog[j].title = LoggedTitle(a)
    /\ \A t \in ConcurrentTasks :
           /\ CountFor(decisions, t) <= 1
           /\ CountFor(decisions, t) <= CountFor(decisionLog, t)

\* C31 witness: of two tasks one stored its decision in both places and the
\* shared logger failed for the other, which has no record in either.
C31_Witness ==
    \E t, u \in ConcurrentTasks :
        /\ CountFor(decisions, t) = 1
        /\ CountFor(decisionLog, t) = 1
        /\ fault[u] \in LoggerErrors
        /\ Returned(u)
        /\ CountFor(decisions, u) = 0
        /\ CountFor(decisionLog, u) = 0

\* ------------------------------------------------ the logging middleware

\* What generate_trace_id can return, and the methods and paths of requests.
TraceIds == {"a1b2c3d4", "e5f60718"}
HttpMethods == {"GET", "POST"}
HttpPaths == {"/agents"}

\* The status codes of the handler's responses.
StatusCodes == {200, 500}

\* What the handler can raise: errors that derive from Exception, and
\* asyncio.CancelledError, which does not.
HttpExceptions == {"HTTPException", "RuntimeError"}
HandlerErrors == HttpExceptions \cup {CancelledError.type}

\* The arguments of the set_correlation_context calls made below the
\* middleware while the request is handled.
HandlerArgs ==
    {[EmptyContext EXCEPT !.span_id = "9a8b7c6d", !.agent = "aider",
                          !.phase = "executing"],
     [EmptyContext EXCEPT !.trace_id = "ffffffff"]}

\* set_correlation_context(...): every argument that is not None is set, the
\* other variables keep their values.
SetCorrelationContext(c, args) ==
    [f \in DOMAIN c |-> IF args[f] # None THEN args[f] ELSE c[f]]

\* Variant of ClearCorrelationContext: the trace id is kept for the log
\* lines that follow the request.
ClearAllButTraceId(c) == [f \in DOMAIN c |-> IF f = "trace_id" THEN c[f] ELSE None]

\* clear_correlation_context(): all six variables are set to None.
ClearCorrelationContext(c) == [f \in DOMAIN c |-> None]

\* A log entry: the event with the correlation context the processor adds,
\* and the error type of request_failed.
LogEntry(c, event, error_type) ==
    [event |-> event, trace_id |-> c.trace_id, agent |-> c.agent,
     error_type |-> error_type]

\* `except Exception`: what the handler of dispatch catches.
DispatchCatches(exc) == exc \in HttpExceptions

\* dispatch up to `await call_next(request)`: the trace id is generated and
\* put into the context with the method and the path, and request_started
\* is logged.  call_next starts the route in a task of its own, which gets a
\* copy of the context as it is at that moment.
DispatchBegin(r, trace_id, method, path) ==
    /\ dispatch[r].pc = "idle"
    /\ \A q \in HttpRequests : q < r => dispatch[q].pc # "idle"
    /\ LET c == SetCorrelationContext(ctx[r],
                    [EmptyContext EXCEPT !.trace_id = trace_id, !.method = method,
                                         !.path = path])
       IN  /\ ctx' = [ctx EXCEPT ![r] = c]
           /\ httpLog' = [httpLog EXCEPT ![r] =
                  Append(@, LogEntry(c, "request_started", None))]
           /\ routeCtx' = [routeCtx EXCEPT ![r] = c]
    /\ dispatch' = [dispatch EXCEPT ![r].pc = "handling", ![r].trace_id = trace_id]
    /\ UNCHANGED <<vars, logVars, gateVars, councilVars, meshVars>>

\* Code below the middleware calls set_correlation_context while the request
\* is handled: it runs in the route's task and changes that task's copy of
\* the context, never the context of dispatch.
HandlerSetsContext(r, args) ==
    /\ dispatch[r].pc = "handling"
    /\ routeCtx' = [routeCtx EXCEPT ![r] = SetCorrelationContext(@, args)]
    /\ UNCHANGED <<vars, logVars, gateVars, councilVars, meshVars, ctx, dispatch, httpLog>>

\* call_next returns the response: request_completed is logged, the header
\* X-Trace-ID is set to the local trace_id, the finally clause clears the
\* context, and the response is returned.
HandlerReturns(r, status_code) ==
    /\ dispatch[r].pc = "handling"
    /\ httpLog' = [httpLog EXCEPT ![r] =
           Append(@, LogEntry(ctx[r], "request_completed", None))]
    /\ dispatch' = [dispatch EXCEPT ![r].pc = "returned",
                                    ![r].status_code = status_code,
                                    ![r].x_trace_id = dispatch[r].trace_id]
    /\ ctx' = [ctx EXCEPT ![r] = ClearCorrelationContext(@)]
    /\ UNCHANGED <<vars, logVars, gateVars, councilVars, meshVars, routeCtx>>

\* call_next raises: an Exception is logged as request_failed and raised
\* again, any other error passes the except clause; the finally clause
\* clears the context either way.
HandlerRaises(r, exc) ==
    /\ dispatch[r].pc = "handling"
    /\ httpLog' = [httpLog EXCEPT ![r] =
           IF DispatchCatches(exc)
           THEN Append(@, LogEntry(ctx[r], "request_failed", exc))
           ELSE @]
    /\ dispatch' = [dispatch EXCEPT ![r].pc = "raised",
                                    ![r].handler_error = exc,
                                    ![r].raised = exc]
    /\ ctx' = [ctx EXCEPT ![r] = ClearCorrelationContext(@)]
    /\ UNCHANGED <<vars, logVars, gateVars, councilVars, meshVars, routeCtx>>

HttpInit == Init /\ cfgMode = AUTO

HttpNext ==
    \/ \E r \in HttpRequests, tid \in TraceIds, m \in HttpMethods, p \in HttpPaths :
           DispatchBegin(r, tid, m, p)
    \/ \E r \in HttpRequests, args \in HandlerArgs : HandlerSetsContext(r, args)
    \/ \E r \in HttpRequests, code \in StatusCodes : HandlerReturns(r, code)
    \/ \E r \in HttpRequests, e \in HandlerErrors : HandlerRaises(r, e)

\* The requests are handled concurrently, each in the context of its own
\* asyncio task.
SpecHttp == HttpInit /\ [][HttpNext]_allVars

\* C32: when dispatch has finished, by returning or by raising, all six
\* correlation variables are None; an error of the handler leaves dispatch as
\* the same error, without a response, and is logged as request_failed when
\* it is an Exception; a returned response carries in X-Trace-ID the trace id
\* that was generated for the request and logged with request_started.
C32_ContextClearedAfterRequest ==
    \A r \in HttpRequests :
        LET d == dispatch[r]
            log == httpLog[r]
        IN  /\ d.pc \in {"returned", "raised"} =>
                   \A f \in DOMAIN ctx[r] : ctx[r][f] = None
            /\ d.pc = "raised" <=> d.handler_error # None
            /\ d.handler_error # None =>
                   /\ d.raised = d.handler_error
                   /\ d.x_trace_id = None
            /\ d.handler_error \in HttpExceptions =>
                   /\ log[Len(log)].event = "request_failed"
                   /\ log[Len(log)].error_type = d.handler_error
            /\ d.pc = "returned" =>
                   /\ d.trace_id \in TraceIds
                   /\ d.x_trace_id = d.trace_id
                   /\ log[1].event = "request_started"
                   /\ log[1].trace_id = d.trace_id
                   /\ log[Len(log)].event = "request_completed"

\* C32 witness: the route of a request set the agent in its task and then
\* raised, a second request got its response while the first was being
\* handled, and the contexts of both dispatch calls are clear.
C32_Witness ==
    \E r, q \in HttpRequests :
        /\ r # q
        /\ dispatch[r].pc = "raised"
        /\ routeCtx[r].agent = "aider"
        /\ httpLog[r][Len(httpLog[r])].event = "request_failed"
        /\ httpLog[r][Len(httpLog[r])].agent = None
        /\ ctx[r] = EmptyContext
        /\ dispatch[q].pc = "returned"
        /\ dispatch[q].x_trace_id = dispatch[q].trace_id
        /\ ctx[q] = EmptyContext

====
